---- MODULE Spec2Model ----
(***************************************************************************)
(* Model of the latex-preprocessor pipeline of src/src/main.rs:            *)
(* PreFile::from_string (classification of the lines of the input, then    *)
(* segmentation into blocks), Block::transpile (rendering of one block)    *)
(* and PreFile::transpile (assembly between DEFAULT_HEADER and             *)
(* DEFAULT_FOOTER).                                                        *)
(*                                                                         *)
(* A string is a sequence of tokens.  A character of the input is a token  *)
(* of one character; a literal the renderer emits (a directive such as     *)
(* "\\begin{align*}\n") is one token.  The inputs contain no backslash and *)
(* no carriage return, so a directive token is never produced by user      *)
(* text.                                                                   *)
(***************************************************************************)
EXTENDS Integers, Sequences, FiniteSets, TLC

VARIABLES string, pc, i, lines, j, blocks, block_buffer, current_type,
          k, buffer, fragment, result, panic

vars == <<string, pc, i, lines, j, blocks, block_buffer, current_type,
          k, buffer, fragment, result, panic>>

----------------------------------------------------------------------------
(* Bounds of the explored inputs.                                          *)

MaxLineLen == 5

MaxBodyLen == 6

MaxHashes == 6

MaxLines == 3

MaxPairLen == 3

MaxBlocks == 2

----------------------------------------------------------------------------
(* Strings.                                                                *)

Alphabet == {">", "#", "~", " ", "a"}

BodyAlphabet == {"~", " ", "a"}

Strs(A, n) == UNION {[1..m -> A] : m \in 0..n}

Hashes(n) == [p \in 1..n |-> "#"]

\* char::is_whitespace on the characters that occur in the model
IsWhitespace(c) == c \in {" ", "\n"}

RECURSIVE TrimStart(_)
TrimStart(s) ==
    IF s = <<>> THEN <<>>
    ELSE IF IsWhitespace(Head(s)) THEN TrimStart(Tail(s)) ELSE s

RECURSIVE TrimEnd(_)
TrimEnd(s) ==
    IF s = <<>> THEN <<>>
    ELSE IF IsWhitespace(s[Len(s)]) THEN TrimEnd(SubSeq(s, 1, Len(s) - 1)) ELSE s

\* str::trim
Trim(s) == TrimEnd(TrimStart(s))

\* str::starts_with for a pattern of one character
StartsWith(s, c) == Len(s) >= 1 /\ s[1] = c

\* str::find("~~"): the scan from the left; 0 stands for None, otherwise the
\* 1-based position of the first character of the match
RECURSIVE FindFrom(_, _)
FindFrom(s, p) ==
    IF p + 1 > Len(s) THEN 0
    ELSE IF s[p] = "~" /\ s[p + 1] = "~" THEN p
    ELSE FindFrom(s, p + 1)

RFindSentinel(s) ==
    IF \E p \in 1..(Len(s) - 1) : s[p] = "~" /\ s[p + 1] = "~"
    THEN CHOOSE p \in 1..(Len(s) - 1) :
            /\ s[p] = "~" /\ s[p + 1] = "~"
            /\ \A q \in (p + 1)..(Len(s) - 1) : ~(s[q] = "~" /\ s[q + 1] = "~")
    ELSE 0

FindSentinel(s) == FindFrom(s, 1)

\* str::contains("~~")
ContainsSentinel(s) == FindSentinel(s) # 0

\* str::lines: split at "\n"; a final line terminator adds no empty line
RECURSIVE StrLines(_)
StrLines(s) ==
    IF s = <<>> THEN <<>>
    ELSE IF \E p \in 1..Len(s) : s[p] = "\n"
         THEN LET p == CHOOSE q \in 1..Len(s) :
                          s[q] = "\n" /\ \A r \in 1..(q - 1) : s[r] # "\n"
              IN  <<SubSeq(s, 1, p - 1)>> \o StrLines(SubSeq(s, p + 1, Len(s)))
         ELSE <<s>>

\* String::push_str
PushStrSwapped(buf, s) == s \o buf

PushStr(buf, s) == buf \o s

RECURSIVE fold_strings(_, _, _)
fold_strings(strs, suffix, prefix) ==
    IF strs = <<>> THEN <<>>
    ELSE PushStr(PushStr(prefix, Head(strs)), suffix)
            \o fold_strings(Tail(strs), suffix, prefix)

----------------------------------------------------------------------------
(* The static header and footer, one token per line.                       *)

DEFAULT_HEADER ==
    << "\\documentclass[12pt, a4paper, twoside, titlepage]{article}\n",
       "\\usepackage{amsmath}\n",
       "\\usepackage{amsfonts}\n",
       "\\usepackage{amssymb}\n",
       "\\usepackage{a4}\n",
       "\\usepackage[ngerman]{babel}\n",
       "\\usepackage[utf8x]{inputenc}\n",
       "\\usepackage{ragged2e}\n",
       "\\begin{document}\n",
       "\\begin{flushleft}\n" >>

DEFAULT_FOOTER == << "\\end{flushleft}\n", "\\end{document}\n" >>

----------------------------------------------------------------------------
(* Line, LineType, Block.                                                  *)

NormalType == [kind |-> "Normal", level |-> 0]

AlignType == [kind |-> "Align", level |-> 0]

HeaderType(n) == [kind |-> "Header", level |-> n]

LineNormal(s) == [kind |-> "Normal", text |-> s, level |-> 0]

LineHeader(s, n) == [kind |-> "Header", text |-> s, level |-> n]

LineAlign(s) == [kind |-> "Align", text |-> s, level |-> 0]

get_type_no_level(line) == [kind |-> line.kind, level |-> 0]

get_type(line) == [kind |-> line.kind, level |-> line.level]

get_content(line) == line.text

\* Block::from_block_buffer on a non-empty buffer
from_block_buffer(buf) ==
    [block_type |-> get_type(buf[1]),
     content    |-> [p \in 1..Len(buf) |-> get_content(buf[p])]]

----------------------------------------------------------------------------
(* Classification: the body of the first loop of PreFile::from_string.     *)

\* the loop over line.chars() that counts the leading '#'
RECURSIVE CountAllHashes(_)
CountAllHashes(s) ==
    IF s = <<>> THEN 0
    ELSE (IF Head(s) = "#" THEN 1 ELSE 0) + CountAllHashes(Tail(s))

RECURSIVE CountHashes(_)
CountHashes(s) ==
    IF s = <<>> THEN 0
    ELSE IF Head(s) = "#" THEN 1 + CountHashes(Tail(s)) ELSE 0

\* line[from..]: defined when from <= len, a panic otherwise
SliceOk(s, from) == from <= Len(s)

SliceFrom(s, from) == SubSeq(s, from + 1, Len(s))

ClassifyOk(line) ==
    IF StartsWith(line, ">") THEN SliceOk(line, 1)
    ELSE IF StartsWith(line, "#") THEN SliceOk(line, CountHashes(line))
    ELSE TRUE

Classify(line) ==
    IF StartsWith(line, ">") THEN LineAlign(SliceFrom(line, 1))
    ELSE IF StartsWith(line, "#")
         THEN LET counter == CountHashes(line)
              IN  LineHeader(SliceFrom(line, counter), counter)
         ELSE LineNormal(line)

----------------------------------------------------------------------------
(* Block::transpile.  The result is [panic, out]: out is the fragment, and *)
(* panic is TRUE when the call aborts instead of returning.                *)

Fragment(s) == [panic |-> FALSE, out |-> s]

Abort == [panic |-> TRUE, out |-> <<>>]

\* the closure of the Normal arm
NormalLineNoTrim(x) == IF x = <<"~", "~">> THEN <<"\\quad\\newline">> ELSE x

NormalLine(x) == IF Trim(x) = <<"~", "~">> THEN <<"\\quad\\newline">> ELSE x

NormalTranspile(content) ==
    LET mapped == [p \in 1..Len(content) |-> NormalLine(content[p])]
    IN  PushStr(Trim(fold_strings(mapped, <<"\n">>, <<>>)), <<"\n">>)

\* fold_strings(self.content, " ", "").trim()
HeaderText(content) == Trim(fold_strings(content, <<" ">>, <<>>))

Header4NoReopen(content) ==
    << "\\end{flushleft}\n", "\\center\n", "\\large", "\\textbf{ " >>
        \o HeaderText(content)
        \o << " }\n", "\\normalsize\n", "\\endcenter\n" >>

Header4(content) ==
    << "\\end{flushleft}\n", "\\center\n", "\\large", "\\textbf{ " >>
        \o HeaderText(content)
        \o << " }\n", "\\normalsize\n", "\\endcenter\n", "\\begin{flushleft}\n" >>

Header5(content) == <<"\\textbf{ ">> \o HeaderText(content) \o <<" }\\\\\n">>

HeaderTranspileClamped(n, content) ==
    CASE n = 1 -> Fragment(<<"\\section{ ">> \o HeaderText(content) \o <<" }\n">>)
      [] n = 2 -> Fragment(<<"\\subsection{ ">> \o HeaderText(content) \o <<" }\n">>)
      [] n = 3 -> Fragment(<<"\\subsubsection{ ">> \o HeaderText(content) \o <<" }\n">>)
      [] n = 4 -> Fragment(Header4(content))
      [] OTHER -> Fragment(Header5(content))

HeaderTranspileUpTo2(n, content) ==
    CASE n = 1 -> Fragment(<<"\\section{ ">> \o HeaderText(content) \o <<" }\n">>)
      [] n = 2 -> Fragment(<<"\\subsection{ ">> \o HeaderText(content) \o <<" }\n">>)
      [] OTHER -> Abort

HeaderTranspile(n, content) ==
    CASE n = 1 -> Fragment(<<"\\section{ ">> \o HeaderText(content) \o <<" }\n">>)
      [] n = 2 -> Fragment(<<"\\subsection{ ">> \o HeaderText(content) \o <<" }\n">>)
      [] n = 3 -> Fragment(<<"\\subsubsection{ ">> \o HeaderText(content) \o <<" }\n">>)
      [] n = 4 -> Fragment(Header4(content))
      [] n = 5 -> Fragment(Header5(content))
      [] OTHER -> Abort

\* self.content.iter().any(|x| x.contains("~~"))
CommentedFirstOnly(content) == ContainsSentinel(content[1])

Commented(content) == \E p \in 1..Len(content) : ContainsSentinel(content[p])

\* one iteration of the loop of the Align arm
AlignRow(elem, commented) ==
    (IF ContainsSentinel(elem)
     THEN LET mid == FindSentinel(elem) - 1
              p1  == SubSeq(elem, 1, mid)
              p2  == SubSeq(elem, mid + 1, Len(elem))
          IN  <<"&">> \o Trim(p1) \o <<" &&\\text{ ">> \o SliceFrom(p2, 2) \o <<" }">>
     ELSE IF commented
          THEN <<"&">> \o elem \o <<" &&\\text{\\quad}">>
          ELSE <<"&">> \o elem)
    \o <<"\\\\\n">>

RECURSIVE AlignRows(_, _)
AlignRows(content, commented) ==
    IF content = <<>> THEN <<>>
    ELSE AlignRow(Head(content), commented) \o AlignRows(Tail(content), commented)

AlignTranspile(content) ==
    <<"\\begin{align*}\n">>
        \o AlignRows(content, Commented(content))
        \o <<"\\end{align*}\n">>

BlockTranspile(block) ==
    CASE block.block_type.kind = "Normal" -> Fragment(NormalTranspile(block.content))
      [] block.block_type.kind = "Header" ->
            HeaderTranspile(block.block_type.level, block.content)
      [] block.block_type.kind = "Align"  -> Fragment(AlignTranspile(block.content))

----------------------------------------------------------------------------
(* The explored inputs.  A document is a sequence of lines; the input      *)
(* string is the document with its lines joined by "\n" (Unterminated) or  *)
(* each followed by "\n" (Terminated).                                     *)

RECURSIVE Terminated(_)
Terminated(doc) ==
    IF doc = <<>> THEN <<>> ELSE Head(doc) \o <<"\n">> \o Terminated(Tail(doc))

Unterminated(doc) ==
    IF doc = <<>> THEN <<>>
    ELSE LET t == Terminated(doc) IN SubSeq(t, 1, Len(t) - 1)

\* one line, every string over the alphabet
RichLines == Strs(Alphabet, MaxLineLen)

\* one line, prose or alignment, with longer bodies around the sentinel
SentinelLines ==
    {m \o b : m \in {<<>>, <<">">>}, b \in Strs(BodyAlphabet, MaxBodyLen)}

\* header lines of every level up to MaxHashes
HashLines == {Hashes(n) \o b : n \in 0..MaxHashes, b \in {<<>>, <<"a">>}}

\* one line of every kind, for the documents of several lines
KindLines ==
    { <<>>, <<" ">>, <<"a">>, <<"~", "~">>, <<">", "a">>, <<">", "~", "~">>,
      <<"#", "a">>, <<"#", "#", "a">>, <<"#", "#", "#", "#", "a">>,
      Hashes(MaxHashes) }

\* two lines of one kind, prose or alignment
PairDocs ==
    {<<m \o a, m \o b>> : m \in {<<>>, <<">">>},
                          a \in Strs(BodyAlphabet, MaxPairLen),
                          b \in Strs(BodyAlphabet, MaxPairLen)}

Inputs ==
    {Unterminated(<<l>>) : l \in RichLines \cup SentinelLines \cup HashLines}
        \cup {Unterminated(<<l, m>>) : l \in HashLines, m \in HashLines}
        \cup {Terminated(doc) : doc \in PairDocs}
        \cup {Terminated(doc) : doc \in Strs(KindLines, MaxLines)}

\* blocks handed to PreFile::transpile directly
TestContents == { << <<"a">> >>, << <<"~", "~">>, <<"a">> >> }

TestTypes == {NormalType, AlignType} \cup {HeaderType(n) : n \in 0..MaxHashes}

TestBlocks == {[block_type |-> t, content |-> c] : t \in TestTypes, c \in TestContents}

----------------------------------------------------------------------------
(* The state machine.  pc is the position of main: inside from_string,     *)
(* between from_string and transpile ("built"), inside transpile, after    *)
(* transpile has returned ("done"), or aborted ("panic").  i, j and k are  *)
(* the positions of the three loops; result and panic hold at most one     *)
(* element (None is the empty sequence).                                   *)

NumLines == Len(StrLines(string))

Init ==
    /\ string \in Inputs
    /\ pc = "from_string"
    /\ i = 1
    /\ lines = <<>>
    /\ j = 1
    /\ blocks = <<>>
    /\ block_buffer = <<>>
    /\ current_type = <<>>
    /\ k = 1
    /\ buffer = <<>>
    /\ fragment = <<>>
    /\ result = <<>>
    /\ panic = <<>>

InitBlocks ==
    /\ string = <<>>
    /\ pc = "built"
    /\ i = 1
    /\ lines = <<>>
    /\ j = 1
    /\ blocks \in Strs(TestBlocks, MaxBlocks)
    /\ block_buffer = <<>>
    /\ current_type = <<>>
    /\ k = 1
    /\ buffer = <<>>
    /\ fragment = <<>>
    /\ result = <<>>
    /\ panic = <<>>

\* one iteration of `for line_str in string.lines()`
ClassifyLine ==
    /\ pc = "from_string"
    /\ i <= NumLines
    /\ LET line == StrLines(string)[i]
       IN  IF ClassifyOk(line)
           THEN /\ lines' = Append(lines, Classify(line))
                /\ i' = i + 1
                /\ UNCHANGED <<pc, panic>>
           ELSE /\ pc' = "panic"
                /\ panic' = <<"byte index out of bounds">>
                /\ UNCHANGED <<lines, i>>
    /\ UNCHANGED <<string, j, blocks, block_buffer, current_type,
                   k, buffer, fragment, result>>

\* `for line in lines`, first branch: the line has the type of the open buffer
SegmentAppend ==
    /\ pc = "from_string"
    /\ i > NumLines
    /\ j <= Len(lines)
    /\ <<get_type(lines[j])>> = current_type
    /\ block_buffer' = Append(block_buffer, lines[j])
    /\ j' = j + 1
    /\ UNCHANGED <<string, pc, i, lines, blocks, current_type,
                   k, buffer, fragment, result, panic>>

\* second branch: no buffer is open yet
SegmentOpen ==
    /\ pc = "from_string"
    /\ i > NumLines
    /\ j <= Len(lines)
    /\ <<get_type(lines[j])>> # current_type
    /\ current_type = <<>>
    /\ current_type' = <<get_type(lines[j])>>
    /\ block_buffer' = Append(block_buffer, lines[j])
    /\ j' = j + 1
    /\ UNCHANGED <<string, pc, i, lines, blocks,
                   k, buffer, fragment, result, panic>>

\* third branch: the type changes, the open buffer becomes a block
SegmentClose ==
    /\ pc = "from_string"
    /\ i > NumLines
    /\ j <= Len(lines)
    /\ <<get_type(lines[j])>> # current_type
    /\ current_type # <<>>
    /\ IF block_buffer = <<>>
       THEN /\ pc' = "panic"
            /\ panic' = <<"block buffer is empty">>
            /\ UNCHANGED <<blocks, block_buffer, current_type, j>>
       ELSE /\ blocks' = Append(blocks, from_block_buffer(block_buffer))
            /\ block_buffer' = <<lines[j]>>
            /\ current_type' = <<get_type(lines[j])>>
            /\ j' = j + 1
            /\ UNCHANGED <<pc, panic>>
    /\ UNCHANGED <<string, i, lines, k, buffer, fragment, result>>

\* after the loop: the last buffer becomes a block and the PreFile is returned
FromStringReturn ==
    /\ pc = "from_string"
    /\ i > NumLines
    /\ j > Len(lines)
    /\ block_buffer # <<>>
    /\ blocks' = Append(blocks, from_block_buffer(block_buffer))
    /\ block_buffer' = <<>>
    /\ pc' = "built"
    /\ UNCHANGED <<string, i, lines, j, current_type,
                   k, buffer, fragment, result, panic>>

\* after the loop: Block::from_block_buffer panics on an empty buffer
FromStringPanic ==
    /\ pc = "from_string"
    /\ i > NumLines
    /\ j > Len(lines)
    /\ block_buffer = <<>>
    /\ pc' = "panic"
    /\ panic' = <<"block buffer is empty">>
    /\ UNCHANGED <<string, i, lines, j, blocks, block_buffer, current_type,
                   k, buffer, fragment, result>>

\* PreFile::transpile up to its loop
TranspileBegin ==
    /\ pc = "built"
    /\ buffer' = PushStr(<<>>, DEFAULT_HEADER)
    /\ k' = 1
    /\ pc' = "transpile"
    /\ UNCHANGED <<string, i, lines, j, blocks, block_buffer, current_type,
                   fragment, result, panic>>

\* one iteration of `for elem in self.blocks` in which elem.transpile() returns
TranspileBlock ==
    /\ pc = "transpile"
    /\ k <= Len(blocks)
    /\ ~BlockTranspile(blocks[k]).panic
    /\ fragment' = BlockTranspile(blocks[k]).out
    /\ buffer' = PushStr(buffer, fragment')
    /\ k' = k + 1
    /\ UNCHANGED <<string, pc, i, lines, j, blocks, block_buffer, current_type,
                   result, panic>>

\* one iteration in which elem.transpile() panics
TranspilePanic ==
    /\ pc = "transpile"
    /\ k <= Len(blocks)
    /\ BlockTranspile(blocks[k]).panic
    /\ pc' = "panic"
    /\ panic' = <<"header level exceeded 2">>
    /\ UNCHANGED <<string, i, lines, j, blocks, block_buffer, current_type,
                   k, buffer, fragment, result>>

\* after the loop: the footer is pushed and the buffer returned
TranspileEnd ==
    /\ pc = "transpile"
    /\ k > Len(blocks)
    /\ buffer' = PushStr(buffer, DEFAULT_FOOTER)
    /\ result' = <<buffer'>>
    /\ pc' = "done"
    /\ UNCHANGED <<string, i, lines, j, blocks, block_buffer, current_type,
                   k, fragment, panic>>

Next ==
    \/ ClassifyLine
    \/ SegmentAppend
    \/ SegmentOpen
    \/ SegmentClose
    \/ FromStringReturn
    \/ FromStringPanic
    \/ TranspileBegin
    \/ TranspileBlock
    \/ TranspilePanic
    \/ TranspileEnd

\* main on one input file: from_string, then transpile
Spec == Init /\ [][Next]_vars

\* both entry points: main on an input file, and PreFile::transpile on a
\* given sequence of blocks
SpecAll == (Init \/ InitBlocks) /\ [][Next]_vars

----------------------------------------------------------------------------
(* Vocabulary of the properties, stated without the operators above.       *)

RECURSIVE ConcatAll(_)
ConcatAll(ss) == IF ss = <<>> THEN <<>> ELSE Head(ss) \o ConcatAll(Tail(ss))

Count(s, tok) == Cardinality({p \in 1..Len(s) : s[p] = tok})

TypeOf(line) == <<line.kind, line.level>>

RawLine(p) == StrLines(string)[p]

\* the raw line starts with exactly n '#'
LeadingHashes(raw, n) ==
    /\ n <= Len(raw)
    /\ \A p \in 1..n : raw[p] = "#"
    /\ Len(raw) = n \/ raw[n + 1] # "#"

SixHashes(raw) == Len(raw) >= 6 /\ \A p \in 1..6 : raw[p] = "#"

HasSentinel(line) == \E p \in 1..(Len(line) - 1) : line[p] = "~" /\ line[p + 1] = "~"

IsBlank(s) == \A p \in 1..Len(s) : s[p] \in {" ", "\n"}

\* s without its leading and trailing whitespace
Stripped(s) ==
    IF IsBlank(s) THEN <<>>
    ELSE LET a == CHOOSE a \in 1..Len(s) :
                    ~IsBlank(<<s[a]>>) /\ IsBlank(SubSeq(s, 1, a - 1))
             b == CHOOSE b \in 1..Len(s) :
                    ~IsBlank(<<s[b]>>) /\ IsBlank(SubSeq(s, b + 1, Len(s)))
         IN  SubSeq(s, a, b)

\* from_string has returned a PreFile built from the input
Built ==
    \/ pc \in {"built", "transpile", "done"}
    \/ pc = "panic" /\ panic = <<"header level exceeded 2">>

\* number of lines in the blocks before block b
Offset(b) == Len(ConcatAll([q \in 1..(b - 1) |-> blocks[q].content]))

\* the loop of PreFile::transpile has rendered a block of this kind last, and
\* fragment is what Block::transpile returned for it
JustRendered(kind) ==
    /\ pc \in {"transpile", "done", "panic"}
    /\ k > 1
    /\ blocks[k - 1].block_type.kind = kind

RowEnd == "\\\\\n"

RECURSIVE SplitRows(_)
SplitRows(s) ==
    IF s = <<>> THEN <<>>
    ELSE IF \E p \in 1..Len(s) : s[p] = RowEnd
         THEN LET p == CHOOSE q \in 1..Len(s) :
                          s[q] = RowEnd /\ \A r \in 1..(q - 1) : s[r] # RowEnd
              IN  <<SubSeq(s, 1, p - 1)>> \o SplitRows(SubSeq(s, p + 1, Len(s)))
         ELSE <<s>>

\* the rows of an align fragment, between its first and its last token
FragmentRows == SplitRows(SubSeq(fragment, 2, Len(fragment) - 1))

BadHeader(block) ==
    block.block_type.kind = "Header" /\ block.block_type.level \notin 1..5

----------------------------------------------------------------------------
\* C1: for a non-empty sequence of input lines from_string yields a stable
\* partition into maximal runs: the blocks' contents concatenated are the
\* contents of the classified lines in input order, no block is empty, all
\* lines of a block have one LineType (level included), and the last line of
\* a block and the first line of the next have different LineTypes.
C1_StablePartition ==
    (Built /\ NumLines > 0) =>
        /\ Len(lines) = NumLines
        /\ ConcatAll([b \in 1..Len(blocks) |-> blocks[b].content])
              = [p \in 1..Len(lines) |-> lines[p].text]
        /\ \A b \in 1..Len(blocks) :
              /\ blocks[b].content # <<>>
              /\ \A p \in 1..Len(blocks[b].content) :
                    /\ TypeOf(lines[Offset(b) + p]) = TypeOf(lines[Offset(b) + 1])
                    /\ TypeOf(lines[Offset(b) + p])
                          = <<blocks[b].block_type.kind, blocks[b].block_type.level>>
        /\ \A b \in 1..(Len(blocks) - 1) :
              TypeOf(lines[Offset(b + 1)]) # TypeOf(lines[Offset(b + 1) + 1])

\* two header lines of level 1 in one block, followed by a block of level 2
C1_Witness ==
    /\ pc = "built"
    /\ Len(blocks) = 2
    /\ Len(blocks[1].content) = 2
    /\ blocks[1].block_type = HeaderType(1)
    /\ blocks[2].block_type = HeaderType(2)

\* C2: classification never fails and follows its rules: a line starting with
\* '>' is Align(line minus its first character), whatever follows; otherwise
\* a line starting with exactly n >= 1 '#' is Header(level n, line minus those
\* n characters); every other line, the empty one included, is Normal(line).
C2_Classification ==
    /\ panic # <<"byte index out of bounds">>
    /\ Len(lines) = i - 1
    /\ i <= NumLines + 1
    /\ \A p \in 1..Len(lines) :
          LET raw == RawLine(p)
              gt  == raw # <<>> /\ Head(raw) = ">"
              hs  == raw # <<>> /\ Head(raw) = "#"
          IN  /\ gt => lines[p] = [kind |-> "Align", text |-> Tail(raw), level |-> 0]
              /\ hs => \E n \in 1..Len(raw) :
                          /\ LeadingHashes(raw, n)
                          /\ lines[p] = [kind |-> "Header",
                                         text |-> SubSeq(raw, n + 1, Len(raw)),
                                         level |-> n]
              /\ (~gt /\ ~hs) => lines[p] = [kind |-> "Normal", text |-> raw, level |-> 0]

\* a line ">#..." classified as Align
C2_Witness ==
    \E p \in 1..Len(lines) :
        /\ Len(RawLine(p)) >= 3
        /\ RawLine(p)[1] = ">" /\ RawLine(p)[2] = "#"
        /\ lines[p].kind = "Align"

\* C3: the column count of an Align block is decided for the whole block: one
\* column per row when no content line contains "~~", two columns per row when
\* some line does, with the placeholder in column two of the rows without the
\* sentinel; one row per content line, in order, between exactly one open and
\* one close of the align environment.
C3_AlignColumns ==
    JustRendered("Align") =>
        LET content == blocks[k - 1].content
            rows    == FragmentRows
            two     == \E p \in 1..Len(content) : HasSentinel(content[p])
        IN  /\ Len(fragment) >= 2
            /\ fragment[1] = "\\begin{align*}\n"
            /\ fragment[Len(fragment)] = "\\end{align*}\n"
            /\ Count(fragment, "\\begin{align*}\n") = 1
            /\ Count(fragment, "\\end{align*}\n") = 1
            /\ fragment[Len(fragment) - 1] = RowEnd
            /\ Len(rows) = Len(content)
            /\ \A r \in 1..Len(rows) :
                  /\ rows[r] # <<>> /\ rows[r][1] = "&"
                  /\ Count(rows[r], "&") = 1
                  /\ Count(rows[r], " &&\\text{ ") + Count(rows[r], " &&\\text{\\quad}")
                        = (IF two THEN 1 ELSE 0)
                  /\ (two /\ ~HasSentinel(content[r])) =>
                        rows[r] = <<"&">> \o content[r] \o <<" &&\\text{\\quad}">>
                  /\ ~two => rows[r] = <<"&">> \o content[r]

\* an Align block whose first line has no sentinel and whose second line has
C3_Witness ==
    /\ JustRendered("Align")
    /\ Len(blocks[k - 1].content) >= 2
    /\ ~HasSentinel(blocks[k - 1].content[1])
    /\ HasSentinel(blocks[k - 1].content[2])

\* C4: rendering a Header block whose level is outside 1..5 (0, or 6 and
\* above) aborts and yields no fragment; such a block is never passed over.
\* So an input with a line of six or more leading '#', at any position, never
\* returns an output string.
C4_UnsupportedLevelAborts ==
    /\ \A b \in 1..Len(blocks) : BadHeader(blocks[b]) => ~(k > b)
    /\ (pc = "transpile" /\ k <= Len(blocks) /\ BadHeader(blocks[k])) =>
          BlockTranspile(blocks[k]) = Abort
    /\ panic = <<"header level exceeded 2">> =>
          (pc = "panic" /\ result = <<>> /\ BadHeader(blocks[k]))
    /\ (\E p \in 1..NumLines : SixHashes(RawLine(p))) =>
          /\ pc # "done"
          /\ result = <<>>

\* the second line of the input has six '#': the pipeline has aborted at the
\* second block
C4_Witness ==
    /\ pc = "panic"
    /\ NumLines = 2
    /\ SixHashes(RawLine(2))
    /\ k = 2
    /\ result = <<>>

\* C5: an input of zero lines yields zero blocks without the empty-block
\* abort, and the pipeline returns the header followed by the footer.
C5_EmptyInputYieldsNoBlocks ==
    NumLines = 0 =>
        /\ pc # "panic"
        /\ blocks = <<>>
        /\ pc = "done" => result = <<DEFAULT_HEADER \o DEFAULT_FOOTER>>

\* C6: there is no failure besides the two fatal conditions: an input of at
\* least one line whose header lines all have 1 to 5 leading '#' is
\* classified, segmented, rendered and assembled without abort, and an output
\* string is returned.
C6_NoOtherFailure ==
    (NumLines >= 1 /\ \A p \in 1..NumLines : ~SixHashes(RawLine(p))) =>
        /\ pc # "panic"
        /\ panic = <<>>
        /\ pc # "done" => result = <<>>
        /\ pc = "done" =>
              /\ result = <<buffer>>
              /\ i = NumLines + 1 /\ j = Len(lines) + 1 /\ k = Len(blocks) + 1

\* an Align line with several "~~" has gone through the whole pipeline
C6_Witness ==
    /\ pc = "done"
    /\ result # <<>>
    /\ \E b \in 1..Len(blocks) :
          /\ blocks[b].block_type.kind = "Align"
          /\ blocks[b].content[1] = <<"~", "~", "~", "~">>

\* the rendered lines of a Normal block, each followed by a newline
NormalRendered(content) ==
    ConcatAll([p \in 1..Len(content) |->
                  (IF Stripped(content[p]) = <<"~", "~">>
                   THEN <<"\\quad\\newline">> ELSE content[p]) \o <<"\n">>])

\* C7 as stated: the fragment of a Normal block is its n rendered lines in
\* order, joined by newlines, with one trailing newline, also when the first
\* or last content line is empty or whitespace-only.
C7_NormalDropsNoLine ==
    JustRendered("Normal") => fragment = NormalRendered(blocks[k - 1].content)

\* C7 as amended: the fragment is the rendered lines joined by newlines with
\* the leading and trailing whitespace of the joined text removed (empty or
\* whitespace-only lines at either end included), plus one newline; when the
\* first rendered line starts and the last one ends with a non-whitespace
\* character no line is dropped; a block of the sentinel alone renders as the
\* paragraph-break directive plus newline.
C7_NormalTrimmed ==
    JustRendered("Normal") =>
        LET content == blocks[k - 1].content
            joined  == NormalRendered(content)
            n       == Len(content)
        IN  /\ fragment = Stripped(joined) \o <<"\n">>
            /\ (/\ ~IsBlank(content[1]) /\ ~IsBlank(<<content[1][1]>>)
                /\ ~IsBlank(content[n]) /\ ~IsBlank(<<content[n][Len(content[n])]>>))
                  => fragment = joined
            /\ content = << <<"~", "~">> >> => fragment = <<"\\quad\\newline", "\n">>

\* a Normal block of an empty line, the sentinel and a text line
C7_Witness ==
    /\ JustRendered("Normal")
    /\ blocks[k - 1].content = << <<>>, <<"~", "~">>, <<"a">> >>
    /\ fragment = <<"\\quad\\newline", "\n", "a", "\n">>

\* C8: transpile returns header ++ fragment(block 1) ++ ... ++ fragment(block
\* n) ++ footer: one fragment per block, in block order, nothing between them.
C8_Assembly ==
    /\ pc = "transpile" =>
          buffer = DEFAULT_HEADER
                     \o ConcatAll([b \in 1..(k - 1) |-> BlockTranspile(blocks[b]).out])
    /\ pc = "done" =>
          /\ result = << DEFAULT_HEADER
                           \o ConcatAll([b \in 1..Len(blocks) |->
                                            BlockTranspile(blocks[b]).out])
                           \o DEFAULT_FOOTER >>
          /\ SubSeq(result[1], 1, Len(DEFAULT_HEADER)) = DEFAULT_HEADER
          /\ SubSeq(result[1], Len(result[1]) - Len(DEFAULT_FOOTER) + 1, Len(result[1]))
                = DEFAULT_FOOTER

\* three blocks of three kinds assembled
C8_Witness ==
    /\ pc = "done"
    /\ Len(blocks) = 3
    /\ blocks[1].block_type.kind = "Normal"
    /\ blocks[2].block_type.kind = "Align"
    /\ blocks[3].block_type.kind = "Normal"

\* the environment directives of the renderer
IsEnvToken(t) ==
    t \in { "\\begin{flushleft}\n", "\\end{flushleft}\n", "\\center\n",
            "\\endcenter\n", "\\begin{align*}\n", "\\end{align*}\n" }

\* one directive read in state st = [fl, center, align, ok]: which
\* environments are open, and whether every directive so far was legal
EnvStep(st, t) ==
    CASE t = "\\begin{flushleft}\n" ->
            [st EXCEPT !.ok = st.ok /\ ~st.fl /\ ~st.center /\ ~st.align, !.fl = TRUE]
      [] t = "\\end{flushleft}\n" ->
            [st EXCEPT !.ok = st.ok /\ st.fl /\ ~st.center /\ ~st.align, !.fl = FALSE]
      [] t = "\\center\n" ->
            [st EXCEPT !.ok = st.ok /\ ~st.fl /\ ~st.center /\ ~st.align, !.center = TRUE]
      [] t = "\\endcenter\n" ->
            [st EXCEPT !.ok = st.ok /\ st.center /\ ~st.fl /\ ~st.align, !.center = FALSE]
      [] t = "\\begin{align*}\n" ->
            [st EXCEPT !.ok = st.ok /\ st.fl /\ ~st.align, !.align = TRUE]
      [] t = "\\end{align*}\n" ->
            [st EXCEPT !.ok = st.ok /\ st.fl /\ st.align, !.align = FALSE]
      [] OTHER -> st

RECURSIVE EnvScan(_, _)
EnvScan(st, s) == IF s = <<>> THEN st ELSE EnvScan(EnvStep(st, Head(s)), Tail(s))

EnvOf(s) == EnvScan([fl |-> FALSE, center |-> FALSE, align |-> FALSE, ok |-> TRUE], s)

\* C9: the environment directives of the output are balanced for every
\* sequence of blocks: flushleft is open before and after every fragment, is
\* closed only inside a level-4 header fragment (close flushleft, open center,
\* close center, reopen flushleft), is never opened while open nor closed
\* while closed, and is closed for good by the footer alone; an align
\* environment is opened and closed within one fragment, while flushleft is
\* open.
C9_EnvBalanced ==
    LET st == EnvOf(buffer)
    IN  /\ st.ok
        /\ (pc = "transpile" \/ (pc = "panic" /\ buffer # <<>>)) =>
              (st.fl /\ ~st.center /\ ~st.align)
        /\ pc = "done" =>
              /\ ~st.fl /\ ~st.center /\ ~st.align
              /\ buffer[Len(buffer) - 1] = "\\end{flushleft}\n"
              /\ Count(buffer, "\\end{flushleft}\n")
                    = 1 + Cardinality({b \in 1..Len(blocks) :
                                          blocks[b].block_type = HeaderType(4)})
        /\ (pc \in {"transpile", "done", "panic"} /\ k > 1) =>
              LET envs == SelectSeq(fragment, IsEnvToken)
              IN  CASE blocks[k - 1].block_type = HeaderType(4) ->
                          envs = << "\\end{flushleft}\n", "\\center\n",
                                    "\\endcenter\n", "\\begin{flushleft}\n" >>
                    [] blocks[k - 1].block_type.kind = "Align" ->
                          envs = << "\\begin{align*}\n", "\\end{align*}\n" >>
                    [] OTHER -> envs = <<>>

\* a level-4 header followed by an Align block, assembled
C9_Witness ==
    /\ pc = "done"
    /\ Len(blocks) >= 2
    /\ blocks[1].block_type = HeaderType(4)
    /\ blocks[2].block_type.kind = "Align"

\* C10: in an Align block a line containing "~~" is split at the first
\* occurrence only: column one is the text before it, trimmed; column two is
\* everything after those two characters, verbatim, as inline text; a line
\* without the sentinel is column one, verbatim.
C10_AlignSplit ==
    JustRendered("Align") =>
        LET content == blocks[k - 1].content
            rows    == FragmentRows
        IN  /\ Len(rows) = Len(content)
            /\ \A r \in 1..Len(content) :
                  LET line == content[r]
                  IN  IF HasSentinel(line)
                      THEN \E p \in 1..(Len(line) - 1) :
                              /\ line[p] = "~" /\ line[p + 1] = "~"
                              /\ \A q \in 1..(p - 1) : ~(line[q] = "~" /\ line[q + 1] = "~")
                              /\ rows[r] = <<"&">> \o Stripped(SubSeq(line, 1, p - 1))
                                             \o <<" &&\\text{ ">>
                                             \o SubSeq(line, p + 2, Len(line))
                                             \o <<" }">>
                      ELSE SubSeq(rows[r], 1, Len(line) + 1) = <<"&">> \o line

\* an Align line with whitespace after the formula and a second "~~" in the
\* comment
C10_Witness ==
    /\ JustRendered("Align")
    /\ blocks[k - 1].content = << <<"a", " ", "~", "~", "~", "~">> >>
    /\ fragment = << "\\begin{align*}\n",
                     "&", "a", " &&\\text{ ", "~", "~", " }", "\\\\\n",
                     "\\end{align*}\n" >>

====
